---- MODULE Spec2Model ----
(***************************************************************************)
(* fenrir-api (src/fenrir_api.py): a Flask blueprint that exposes a        *)
(* database to agents (GET /fenrir/, GET /fenrir/schema, POST              *)
(* /fenrir/query, POST /fenrir/execute) behind a bearer check, and         *)
(* secure_app, a before_request hook that puts basic auth on the rest of   *)
(* the application.                                                        *)
(*                                                                         *)
(* Text (SQL, header values, paths) is a sequence of one-character         *)
(* strings, so that strip(), startswith(), slicing and the read-only       *)
(* regular expression are computed character by character.                 *)
(*                                                                         *)
(* Spec      one request at a time through the blueprint's handlers,       *)
(*           statement by statement, against a transactional database.     *)
(* SpecGate  the two access gates applied to requests, with the            *)
(*           configuration of secure_app drawn by Init.                    *)
(***************************************************************************)
EXTENDS Integers, Sequences, FiniteSets, TLC

VARIABLES
    debug,          \* app.debug
    api_key,        \* os.environ.get("FENRIR_API_KEY"): None or a string
    row_limit,      \* create_fenrir_bp(engine, row_limit=...)
    readonly_ok,    \* the backend accepts SET TRANSACTION READ ONLY
    db,             \* the committed rows of the table, in id order
    pc,             \* where the request in flight stands
    req,            \* the request in flight (or the last one answered)
    sql,            \* the handler's local `sql` (stripped)
    cls,            \* how the handler classified the statement
    conn,           \* the request's connection and its transaction
    loc,            \* the handler's locals rows / total / truncated
    resp,           \* the response of the request
    db0,            \* history: the committed rows when the request arrived
    n_exec,         \* history: times the user statement was submitted
    n_db,           \* history: database calls made for the request
    skip_paths,     \* secure_app(app, skip_paths=...)
    api_key_header, \* secure_app(app, api_key_header=...)
    greq,           \* SpecGate: the request put to a gate
    gres,           \* SpecGate: what the gate answered
    refused         \* SpecGate history: the status of each kind of refusal

vars == <<debug, api_key, row_limit, readonly_ok, db, pc, req, sql, cls, conn,
          loc, resp, db0, n_exec, n_db, skip_paths, api_key_header, greq,
          gres, refused>>

handler_vars == <<pc, req, sql, cls, conn, loc, resp, db0, n_exec, n_db>>
gate_vars == <<skip_paths, api_key_header, greq, gres, refused>>

-----------------------------------------------------------------------------
(* Bounds *)

\* The largest row limit a blueprint is created with.
MaxLimit == 2
\* Rows the table holds at most beyond the largest row limit.
MaxBeyond == 1

MaxRows == MaxLimit + MaxBeyond

-----------------------------------------------------------------------------
(* Text *)

\* Python's None for an optional string, and a string that is present.
None == [set |-> FALSE, val |-> <<>>]
Some(v) == [set |-> TRUE, val |-> v]

\* Python truthiness of an optional string: `if not api_key`.
Truthy(o) == o.set /\ o.val # <<>>

\* Characters str.isspace() and the pattern's \s accept.
WS == {" ", "\t", "\n"}

LowerMap ==
    [c \in {"S", "E", "L", "C", "T", "W", "I", "H"} |->
        CASE c = "S" -> "s" [] c = "E" -> "e" [] c = "L" -> "l"
          [] c = "C" -> "c" [] c = "T" -> "t" [] c = "W" -> "w"
          [] c = "I" -> "i" [] c = "H" -> "h"]

\* re.IGNORECASE compares characters by their lower case.
ToLower(c) == IF c \in DOMAIN LowerMap THEN LowerMap[c] ELSE c

\* s[i:] for a 0-based i, as Python slices.
SliceFrom(s, i) == IF i >= Len(s) THEN <<>> ELSE SubSeq(s, i + 1, Len(s))

\* str.startswith
StartsWith(s, p) == Len(p) <= Len(s) /\ SubSeq(s, 1, Len(p)) = p

\* 1-based index of the first character that is not whitespace (Len+1: none).
FirstNonWs(s) ==
    IF \A i \in 1..Len(s) : s[i] \in WS THEN Len(s) + 1
    ELSE CHOOSE i \in 1..Len(s) :
            s[i] \notin WS /\ \A j \in 1..(i - 1) : s[j] \in WS

\* 1-based index of the last character that is not whitespace (0: none).
LastNonWs(s) ==
    IF \A i \in 1..Len(s) : s[i] \in WS THEN 0
    ELSE CHOOSE i \in 1..Len(s) :
            s[i] \notin WS /\ \A j \in (i + 1)..Len(s) : s[j] \in WS

\* str.strip(): whitespace removed at both ends.
Strip(s) ==
    IF LastNonWs(s) = 0 THEN <<>> ELSE SubSeq(s, FirstNonWs(s), LastNonWs(s))

\* The pattern's literal `lit` (given in lower case) matches s at index i,
\* ignoring case.
LitAt(s, i, lit) ==
    /\ i + Len(lit) - 1 <= Len(s)
    /\ \A k \in 1..Len(lit) : ToLower(s[i + k - 1]) = lit[k]

ReSelect == <<"s", "e", "l", "e", "c", "t">>
ReWith == <<"w", "i", "t", "h">>

READ_ONLY_RE_plain(s) ==
    \E i \in 1..(Len(s) + 1) :
        \/ LitAt(s, i, ReSelect)
        \/ LitAt(s, i, ReWith) /\ i + 4 <= Len(s) /\ s[i + 4] \in WS

\* _READ_ONLY_RE.match(s): ^\s*(SELECT|WITH\s), IGNORECASE. \s* is greedy and
\* both alternatives start with a letter, so the match can only start at the
\* first character that is not whitespace.
READ_ONLY_RE(s) ==
    LET i == FirstNonWs(s)
    IN  \/ LitAt(s, i, ReSelect)
        \/ LitAt(s, i, ReWith) /\ i + 4 <= Len(s) /\ s[i + 4] \in WS

-----------------------------------------------------------------------------
(* The access gates *)

Pass == [pass |-> TRUE, status |-> 0, error |-> ""]
Refuse(status, error) == [pass |-> FALSE, status |-> status, error |-> error]

BearerPrefix == <<"B", "e", "a", "r", "e", "r", " ">>

require_auth_scheme_only(dbg, key, auth) ==
    IF dbg THEN Pass
    ELSE IF ~Truthy(key) THEN Refuse(401, "FENRIR_API_KEY not configured")
    ELSE IF ~StartsWith(auth, BearerPrefix) THEN Refuse(401, "unauthorized")
    ELSE Pass

\* _require_auth's wrapper: what it answers before the view, or Pass when it
\* calls the view. auth is request.headers.get("Authorization", "").
require_auth(dbg, key, auth) ==
    IF dbg THEN Pass
    ELSE IF ~Truthy(key) THEN Refuse(401, "FENRIR_API_KEY not configured")
    ELSE IF ~StartsWith(auth, BearerPrefix) \/ SliceFrom(auth, 7) # key.val
         THEN Refuse(401, "unauthorized")
    ELSE Pass

PathRoot == <<"/">>
PathFenrir == <<"/", "f", "e", "n", "r", "i", "r", "/">>
PathStatic == <<"/", "s", "t", "a", "t", "i", "c", "/">>

\* secure_app's _skip list: the two built-in prefixes and skip_paths.
SkipList(skip) == <<PathFenrir, PathStatic>> \o skip

\* The paths secure_app's docstring exempts: /fenrir/, static files and the
\* configured skip_paths.
Exempt(skip, r) ==
    \/ \E i \in 1..Len(SkipList(skip)) : StartsWith(r.path, SkipList(skip)[i])
    \/ r.endpoint = "static"

basic_auth_check_unset_401(dbg, key, skip, hdr, r) ==
    IF dbg THEN Pass
    ELSE IF r.path = PathRoot \/ Exempt(skip, r) THEN Pass
    ELSE IF ~Truthy(key) THEN Refuse(401, "Not configured")
    ELSE IF hdr # "" /\ Truthy(r.headers[hdr]) /\ r.headers[hdr].val = key.val
         THEN Pass
    ELSE IF r.authorization.set /\ r.authorization.password = key.val THEN Pass
    ELSE Refuse(401, "Authentication required")

\* secure_app's _basic_auth_check (a before_request hook): the response it
\* returns, or Pass when it returns None and the request goes on to its view.
basic_auth_check(dbg, key, skip, hdr, r) ==
    IF dbg THEN Pass
    ELSE IF r.path = PathRoot \/ Exempt(skip, r) THEN Pass
    ELSE IF ~Truthy(key) THEN Refuse(503, "Not configured")
    ELSE IF hdr # "" /\ Truthy(r.headers[hdr]) /\ r.headers[hdr].val = key.val
         THEN Pass
    ELSE IF r.authorization.set /\ r.authorization.password = key.val THEN Pass
    ELSE Refuse(401, "Authentication required")

-----------------------------------------------------------------------------
(* Inputs *)

Key == <<"k", "1">>
WrongKey == <<"k", "2">>

\* Values of FENRIR_API_KEY: unset, set to the empty string, set to a key.
EnvKeys == {None, Some(<<>>), Some(Key)}

\* Values of the Authorization header (<<>>: the header is absent).
AuthHeaders ==
    { <<>>,
      BearerPrefix \o Key,
      BearerPrefix \o WrongKey,
      BearerPrefix,
      BearerPrefix \o Key \o <<"x">>,
      <<"b", "e", "a", "r", "e", "r", " ">> \o Key,
      <<"B", "a", "s", "i", "c", " ">> \o Key,
      Key }

\* Statements, abbreviated; each stands for the SQL named beside it.
SelAll == <<"S", "E", "L", "E", "C", "T", " ", "*">>      \* SELECT * FROM author
SelLow == <<"s", "e", "L", "e", "c", "t", "\n", "*">>     \* seLect\n* FROM author
SelBad == <<"S", "E", "L", "E", "C", "T", " ", "?">>      \* SELECT * FROM nonexistent
SelDiv == <<"S", "E", "L", "E", "C", "T", " ", "/">>      \* a SELECT failing while rows are fetched
Selected == <<"S", "E", "L", "E", "C", "T", "E", "D">>    \* SELECTED (no such statement)
WithSel == <<"W", "I", "T", "H", " ", "s">>               \* WITH a AS (SELECT ...) SELECT ... FROM a
WithDelRet == <<"w", "i", "t", "h", "\t", "d">>           \* WITH d AS (DELETE FROM author RETURNING *) SELECT * FROM d
WithDel == <<"W", "I", "T", "H", "\n", "D">>              \* WITH x AS (SELECT 1) DELETE FROM author
WithX == <<"W", "I", "T", "H", "x">>                      \* WITHx
WithOnly == <<"W", "I", "T", "H">>                        \* WITH
XSel == <<"x", "S", "E", "L", "E", "C", "T">>             \* xSELECT
ComSel == <<"-", "-", "\n", "S", "E", "L", "E", "C", "T", " ", "*">> \* a comment line, then SELECT * FROM author
Ins == <<"I", "N", "S", "E", "R", "T">>                   \* INSERT INTO author (name) VALUES ('Pratchett')
InsBad == <<"I", "N", "S", "E", "R", "T", " ", "?">>      \* INSERT INTO nonexistent (x) VALUES (1)
Upd == <<"U", "P", "D", "A", "T", "E">>                   \* UPDATE author SET email = ... WHERE id = 1
Del == <<"D", "E", "L", "E", "T", "E">>                   \* DELETE FROM author WHERE id = (the last id)

Cores ==
    {SelAll, SelLow, SelBad, SelDiv, Selected, WithSel, WithDelRet, WithDel,
     WithX, WithOnly, XSel, ComSel, Ins, InsBad, Upd, Del, <<>>}

Leads == {<<>>, <<"\n", " ">>}
Trails == {<<>>, <<"\t">>}

\* The values of the body's sql field.
Texts == {l \o c \o t : l \in Leads, c \in Cores, t \in Trails}

\* Request bodies, as request.get_json(silent=True) sees them.
\*   none     no body, or a body that is not valid JSON       -> None
\*   falsy    a JSON value that is false in Python: [], 0, "" -> replaced by {}
\*   object   a JSON object without an sql field
\*   array    a JSON value that is true and no object: [1]
\*   sql_null a JSON object whose sql field is null (or a number)
\*   sql      a JSON object whose sql field is a string
Bodies ==
    {[kind |-> k, text |-> <<>>] :
        k \in {"none", "falsy", "object", "array", "sql_null"}}
    \cup {[kind |-> "sql", text |-> t] : t \in Texts}

Routes == {"index", "schema", "query", "execute"}

-----------------------------------------------------------------------------
(* The database behind the engine *)

\* What the backend makes of a statement (keywords in any case).
Sem(s) ==
    CASE s \in {SelAll, SelLow, WithSel, ComSel} -> "select"
      [] s = SelDiv -> "fetcherr"
      [] s = WithDelRet -> "delete_returning"
      [] s = WithDel -> "delete_all"
      [] s = Ins -> "insert"
      [] s = Upd -> "update"
      [] s = Del -> "delete"
      [] OTHER -> "error"

Row(i) == [id |-> i, email |-> "old"]

NoResult ==
    [ok |-> FALSE, error |-> "", returns_rows |-> FALSE, fetch_ok |-> TRUE,
     rows |-> <<>>, work |-> <<>>, rowcount |-> -1]

Failed(msg, work) == [NoResult EXCEPT !.error = msg, !.work = work]

\* A statement that writes, in a transaction that may be read-only.
Write(ro, work, after, n, returned, returns) ==
    IF ro THEN Failed("cannot execute in a read-only transaction", work)
    ELSE [NoResult EXCEPT !.ok = TRUE, !.work = after, !.rowcount = n,
                          !.rows = returned, !.returns_rows = returns]

\* conn.execute(text(sql)) on a connection whose transaction sees the rows
\* `work`: the cursor it returns, and the rows the transaction sees afterwards.
DbExecute(s, work, ro) ==
    CASE Sem(s) = "select" ->
            [NoResult EXCEPT !.ok = TRUE, !.work = work, !.rows = work,
                             !.returns_rows = TRUE]
      [] Sem(s) = "fetcherr" ->
            [NoResult EXCEPT !.ok = TRUE, !.work = work, !.rows = work,
                             !.returns_rows = TRUE, !.fetch_ok = FALSE]
      [] Sem(s) = "delete_returning" ->
            Write(ro, work, <<>>, Len(work), work, TRUE)
      [] Sem(s) = "delete_all" ->
            Write(ro, work, <<>>, Len(work), <<>>, FALSE)
      [] Sem(s) = "insert" ->
            Write(ro, work, Append(work, Row(Len(work) + 1)), 1, <<>>, FALSE)
      [] Sem(s) = "update" ->
            IF work = <<>> THEN Write(ro, work, work, 0, <<>>, FALSE)
            ELSE Write(ro, work, [work EXCEPT ![1].email = "new"], 1, <<>>,
                       FALSE)
      [] Sem(s) = "delete" ->
            IF work = <<>> THEN Write(ro, work, work, 0, <<>>, FALSE)
            ELSE Write(ro, work, SubSeq(work, 1, Len(work) - 1), 1, <<>>,
                       FALSE)
      [] OTHER -> Failed("no such table or syntax error", work)

commit_discards(committed, work) == committed

\* The committed rows once a transaction that saw `work` is over.
commit_result(committed, work) == work

rollback_commits(committed, work) == work

rollback_result(committed, work) == committed
\* A connection closed with its transaction open is reset: rolled back.
close_result(committed, work) == committed

Closed ==
    [open |-> FALSE, tx |-> FALSE, ro |-> FALSE, work |-> <<>>,
     cursor |-> <<>>, fetch_ok |-> TRUE]

\* engine.connect() and the transaction begun on it.
Opened(committed) ==
    [open |-> TRUE, tx |-> TRUE, ro |-> FALSE, work |-> committed,
     cursor |-> <<>>, fetch_ok |-> TRUE]

\* result.fetchmany(n)
Take(s, n) == IF Len(s) <= n THEN s ELSE SubSeq(s, 1, n)
Drop(s, n) == IF Len(s) <= n THEN <<>> ELSE SubSeq(s, n + 1, Len(s))

-----------------------------------------------------------------------------
(* Requests and responses *)

NoRequest ==
    [route |-> "", auth |-> <<>>, body |-> [kind |-> "none", text |-> <<>>]]

NoLocals ==
    [rows |-> <<>>, total |-> 0, truncated |-> FALSE, affected |-> 0,
     error |-> "", failed_at |-> ""]

NoResp ==
    [status |-> 0, error |-> "", rows |-> <<>>, row_count |-> 0,
     truncated |-> FALSE, row_limit |-> 0, affected_rows |-> 0]

ErrorResp(status, msg) == [NoResp EXCEPT !.status = status, !.error = msg]

NoBody == [kind |-> "none", text |-> <<>>]

\* The requests put to the blueprint: every Authorization header on every
\* route (with a plain body on the two POST routes), and every body on the
\* two POST routes under the right key and under a wrong one.
Requests ==
    [route : Routes, auth : AuthHeaders, body : {NoBody}]
    \cup [route : {"query", "execute"}, auth : AuthHeaders,
          body : {[kind |-> "sql", text |-> SelAll],
                  [kind |-> "sql", text |-> Ins]}]
    \cup [route : {"query", "execute"},
          auth : {BearerPrefix \o Key, BearerPrefix \o WrongKey},
          body : Bodies]

\* A request is put to the model only while the table has room for what it
\* may insert: the cap on the table's size.
Fits(r) ==
    r.route = "execute" /\ Sem(Strip(r.body.text)) = "insert"
        => Len(db) < MaxRows

\* Requests put to the application's gates.
PathQuery == PathFenrir \o <<"q", "u", "e", "r", "y">>
PathBare == <<"/", "f", "e", "n", "r", "i", "r">>
PathCss == PathStatic \o <<"a", ".", "c", "s", "s">>
PathAssets == <<"/", "a", "s", "s", "e", "t", "s">>
PathHealth == <<"/", "h", "e", "a", "l", "t", "h">>
PathAdmin == <<"/", "a", "d", "m", "i", "n">>

\* request.authorization: None, or basic auth's username and password.
NoAuthorization == [set |-> FALSE, username |-> <<>>, password |-> <<>>]
Basic(u, p) == [set |-> TRUE, username |-> u, password |-> p]

Authorizations ==
    {NoAuthorization, Basic(<<"u">>, Key), Basic(<<>>, Key),
     Basic(Key, WrongKey)}

HeaderName == "X-API-Key"

GNoRequest ==
    [path |-> <<>>, endpoint |-> "", auth |-> <<>>,
     authorization |-> NoAuthorization, headers |-> [h \in {HeaderName} |-> None]]

\* Routes of the blueprint, reached under /fenrir/ with an Authorization
\* header, and routes of the application, reached with basic auth or the
\* API key header.
GateRequests ==
    [path : {PathFenrir, PathQuery}, endpoint : {"fenrir.view"},
     auth : AuthHeaders, authorization : {NoAuthorization},
     headers : {[h \in {HeaderName} |-> None]}]
    \cup
    {[path |-> pe[1], endpoint |-> pe[2], auth |-> <<>>, authorization |-> a,
      headers |-> [h \in {HeaderName} |-> x]] :
        pe \in {<<PathRoot, "home">>, <<PathAdmin, "admin">>,
                <<PathHealth, "health">>, <<PathCss, "static">>,
                <<PathAssets, "static">>, <<PathBare, "">>},
        a \in Authorizations,
        x \in {None, Some(Key), Some(WrongKey)}}

Gates == {"app", "bearer"}
Kinds == {"unconfigured", "wrong"}
NoRefusals == [g \in Gates |-> [k \in Kinds |-> 0]]

NoAnswer ==
    [gate |-> "", pass |-> TRUE, status |-> 0, error |-> "", key |-> None]

TypeOK ==
    /\ debug \in BOOLEAN
    /\ api_key \in EnvKeys
    /\ row_limit \in 1..MaxLimit
    /\ readonly_ok \in BOOLEAN
    /\ Len(db) <= MaxRows
    /\ n_exec \in 0..1
    /\ resp.status \in {0, 200, 400, 401, 422, 500}

Init ==
    /\ debug \in BOOLEAN
    /\ api_key \in EnvKeys
    /\ row_limit \in 1..MaxLimit
    /\ readonly_ok \in BOOLEAN
    /\ db \in {[i \in 1..k |-> Row(i)] : k \in 0..MaxRows}
    /\ pc = "idle"
    /\ req = NoRequest
    /\ sql = <<>>
    /\ cls = ""
    /\ conn = Closed
    /\ loc = NoLocals
    /\ resp = NoResp
    /\ db0 = db
    /\ n_exec = 0
    /\ n_db = 0
    /\ skip_paths = <<>>
    /\ api_key_header = ""
    /\ greq = GNoRequest
    /\ gres = NoAnswer
    /\ refused = NoRefusals

config_vars == <<debug, row_limit, readonly_ok>>

\* The environment sets or unsets FENRIR_API_KEY between two requests.
SetEnv ==
    /\ pc = "idle"
    /\ \E k \in EnvKeys : k # api_key /\ api_key' = k
    /\ UNCHANGED <<config_vars, db, handler_vars, gate_vars>>

\* A client sends a request.
Receive ==
    /\ pc = "idle"
    /\ \E r \in Requests : Fits(r) /\ req' = r
    /\ pc' = "auth"
    /\ db0' = db
    /\ UNCHANGED <<config_vars, api_key, db, sql, cls, conn, loc, resp, n_exec,
                   n_db, gate_vars>>

\* The response is sent and the request's context is torn down.
Finish ==
    /\ pc = "done"
    /\ pc' = "idle"
    /\ req' = NoRequest
    /\ sql' = <<>>
    /\ cls' = ""
    /\ loc' = NoLocals
    /\ resp' = NoResp
    /\ db0' = db
    /\ n_exec' = 0
    /\ n_db' = 0
    /\ UNCHANGED <<config_vars, api_key, db, conn, gate_vars>>

\* The view a route's request goes to once the wrapper lets it through.
ViewOf(route) ==
    CASE route = "index" -> "index"
      [] route = "schema" -> "schema"
      [] route = "query" -> "q_parse"
      [] route = "execute" -> "x_parse"

\* _require_auth's wrapper around every view of the blueprint.
Auth ==
    /\ pc = "auth"
    /\ LET a == require_auth(debug, api_key, req.auth)
       IN  IF a.pass
           THEN pc' = ViewOf(req.route) /\ resp' = resp
           ELSE pc' = "done" /\ resp' = ErrorResp(a.status, a.error)
    /\ UNCHANGED <<config_vars, api_key, db, req, sql, cls, conn, loc, db0,
                   n_exec, n_db, gate_vars>>

-----------------------------------------------------------------------------
(* GET /fenrir/ and GET /fenrir/schema *)

\* index(): one connection, one COUNT(*) per table, nothing written.
Index ==
    /\ pc = "index"
    /\ n_db' = n_db + 2
    /\ resp' = [NoResp EXCEPT !.status = 200, !.row_count = Len(db)]
    /\ pc' = "done"
    /\ UNCHANGED <<config_vars, api_key, db, req, sql, cls, conn, loc, db0,
                   n_exec, gate_vars>>

\* schema(): the inspector reads the catalogue, nothing written.
Schema ==
    /\ pc = "schema"
    /\ n_db' = n_db + 1
    /\ resp' = [NoResp EXCEPT !.status = 200]
    /\ pc' = "done"
    /\ UNCHANGED <<config_vars, api_key, db, req, sql, cls, conn, loc, db0,
                   n_exec, gate_vars>>

-----------------------------------------------------------------------------
(* POST /fenrir/query *)

\* body = request.get_json(silent=True) or {}; sql = body.get("sql", "").strip()
\* A body that is true in Python and no object has no .get, and an sql field
\* that is no string has no .strip: AttributeError, which nothing catches.
ParseSql(body) ==
    CASE body.kind \in {"none", "falsy", "object"} ->
            [outcome |-> "missing", sql |-> <<>>]
      [] body.kind \in {"array", "sql_null"} ->
            [outcome |-> "crash", sql |-> <<>>]
      [] OTHER ->
            IF Strip(body.text) = <<>>
            THEN [outcome |-> "missing", sql |-> <<>>]
            ELSE [outcome |-> "ok", sql |-> Strip(body.text)]

query_accepts_all(s) == TRUE

\* `if not _READ_ONLY_RE.match(sql)`: what the query endpoint lets through.
query_accepts(s) == READ_ONLY_RE(s)

\* The classification the two endpoints act on.
Classify(s) == IF READ_ONLY_RE(s) THEN "READ_ONLY" ELSE "MUTATING"

QueryParse ==
    /\ pc = "q_parse"
    /\ LET p == ParseSql(req.body)
       IN  CASE p.outcome = "crash" ->
                    /\ resp' = ErrorResp(500, "AttributeError")
                    /\ pc' = "done" /\ sql' = sql /\ cls' = cls
             [] p.outcome = "missing" ->
                    /\ resp' = ErrorResp(400, "missing 'sql' field")
                    /\ pc' = "done" /\ sql' = p.sql /\ cls' = "INVALID"
             [] OTHER ->
                    /\ sql' = p.sql
                    /\ cls' = Classify(p.sql)
                    /\ IF query_accepts(p.sql)
                       THEN pc' = "q_connect" /\ resp' = resp
                       ELSE /\ pc' = "done"
                            /\ resp' = ErrorResp(400,
                                   "only SELECT (or WITH ... SELECT) allowed")
    /\ UNCHANGED <<config_vars, api_key, db, req, conn, loc, db0, n_exec,
                   n_db, gate_vars>>

\* engine.connect().execution_options(...) and conn.begin(); the engine may
\* fail to connect, which the handler's except clause catches.
QueryConnect ==
    /\ pc = "q_connect"
    /\ n_db' = n_db + 1
    /\ \/ /\ conn' = Opened(db)
          /\ pc' = "q_readonly"
          /\ loc' = loc
       \/ /\ conn' = conn
          /\ pc' = "q_except"
          /\ loc' = [loc EXCEPT !.error = "cannot connect",
                                !.failed_at = "connect"]
    /\ UNCHANGED <<config_vars, api_key, db, req, sql, cls, resp, db0, n_exec,
                   gate_vars>>

\* try: conn.execute(text("SET TRANSACTION READ ONLY")) except Exception: pass
QuerySetReadOnly ==
    /\ pc = "q_readonly"
    /\ n_db' = n_db + 1
    /\ conn' = [conn EXCEPT !.ro = readonly_ok]
    /\ pc' = "q_exec"
    /\ UNCHANGED <<config_vars, api_key, db, req, sql, cls, loc, resp, db0,
                   n_exec, gate_vars>>

\* result = conn.execute(text(sql)); columns = list(result.keys())
\* keys() raises on a result that returns no rows.
QueryExecute ==
    /\ pc = "q_exec"
    /\ n_exec' = n_exec + 1
    /\ n_db' = n_db + 1
    /\ LET r == DbExecute(sql, conn.work, conn.ro)
       IN  /\ conn' = [conn EXCEPT !.work = r.work, !.cursor = r.rows,
                                   !.fetch_ok = r.fetch_ok]
           /\ IF r.ok /\ r.returns_rows
              THEN pc' = "q_fetch" /\ loc' = loc
              ELSE /\ pc' = "q_except"
                   /\ loc' = [loc EXCEPT
                        !.error = IF r.ok THEN "result does not return rows"
                                  ELSE r.error,
                        !.failed_at = IF r.ok THEN "keys" ELSE "execute"]
    /\ UNCHANGED <<config_vars, api_key, db, req, sql, cls, resp, db0,
                   gate_vars>>

\* result.fetchmany(row_limit)
fetchmany(cursor, n) == Take(cursor, n)

\* rows = [list(r) for r in result.fetchmany(row_limit)]; total = len(rows)
QueryFetch ==
    /\ pc = "q_fetch"
    /\ IF conn.fetch_ok
       THEN /\ loc' = [loc EXCEPT !.rows = fetchmany(conn.cursor, row_limit),
                           !.total = Len(fetchmany(conn.cursor, row_limit))]
            /\ conn' = [conn EXCEPT
                   !.cursor = Drop(conn.cursor,
                                   Len(fetchmany(conn.cursor, row_limit)))]
            /\ pc' = "q_probe"
       ELSE /\ loc' = [loc EXCEPT !.error = "error while fetching rows",
                                  !.failed_at = "fetch"]
            /\ conn' = conn
            /\ pc' = "q_except"
    /\ UNCHANGED <<config_vars, api_key, db, req, sql, cls, resp, db0, n_exec,
                   n_db, gate_vars>>

truncated_when_full(cursor, total, limit) == total >= limit

\* extra = result.fetchone(); truncated = extra is not None
truncated_of(cursor, total, limit) == cursor # <<>>

QueryProbe ==
    /\ pc = "q_probe"
    /\ loc' = [loc EXCEPT !.truncated = truncated_of(conn.cursor, loc.total,
                                                     row_limit)]
    /\ conn' = [conn EXCEPT !.cursor = Drop(conn.cursor, 1)]
    /\ pc' = "q_rollback"
    /\ UNCHANGED <<config_vars, api_key, db, req, sql, cls, resp, db0, n_exec,
                   n_db, gate_vars>>

\* conn.rollback()
QueryRollback ==
    /\ pc = "q_rollback"
    /\ db' = rollback_result(db, conn.work)
    /\ conn' = [conn EXCEPT !.tx = FALSE, !.work = db', !.cursor = <<>>]
    /\ n_db' = n_db + 1
    /\ pc' = "q_exit"
    /\ UNCHANGED <<config_vars, api_key, req, sql, cls, loc, resp, db0, n_exec,
                   gate_vars>>

with_exit_keeps_connection(c) == c

\* `with engine.connect() ... as conn:` is left, normally or by an exception:
\* the connection is closed, and with it any transaction still open.
with_exit(c) == Closed

\* The with block is left normally: the connection is closed.
QueryExit ==
    /\ pc = "q_exit"
    /\ db' = IF conn.tx THEN close_result(db, conn.work) ELSE db
    /\ conn' = with_exit(conn)
    /\ pc' = "q_respond"
    /\ UNCHANGED <<config_vars, api_key, req, sql, cls, loc, resp, db0, n_exec,
                   n_db, gate_vars>>

query_error_uncaught(msg) == ErrorResp(500, "Internal Server Error")

\* except Exception as exc: return jsonify({"error": str(exc)}), 422
query_error(msg) == ErrorResp(422, msg)

\* An exception leaves the with block, which closes the connection (if one
\* was opened), and the except clause answers.
QueryExcept ==
    /\ pc = "q_except"
    /\ db' = IF conn.tx THEN close_result(db, conn.work) ELSE db
    /\ conn' = with_exit(conn)
    /\ resp' = query_error(loc.error)
    /\ pc' = "done"
    /\ UNCHANGED <<config_vars, api_key, req, sql, cls, loc, db0, n_exec, n_db,
                   gate_vars>>

\* return jsonify({columns, rows, row_count, truncated, row_limit})
QueryRespond ==
    /\ pc = "q_respond"
    /\ resp' = [NoResp EXCEPT !.status = 200, !.rows = loc.rows,
                              !.row_count = loc.total,
                              !.truncated = loc.truncated,
                              !.row_limit = row_limit]
    /\ pc' = "done"
    /\ UNCHANGED <<config_vars, api_key, db, req, sql, cls, conn, loc, db0,
                   n_exec, n_db, gate_vars>>

-----------------------------------------------------------------------------
(* POST /fenrir/execute: the write path (the specification's execute_write) *)

execute_accepts(s) == ~READ_ONLY_RE(s)

ExecuteParse ==
    /\ pc = "x_parse"
    /\ LET p == ParseSql(req.body)
       IN  CASE p.outcome = "crash" ->
                    /\ resp' = ErrorResp(500, "AttributeError")
                    /\ pc' = "done" /\ sql' = sql /\ cls' = cls
             [] p.outcome = "missing" ->
                    /\ resp' = ErrorResp(400, "missing 'sql' field")
                    /\ pc' = "done" /\ sql' = p.sql /\ cls' = "INVALID"
             [] OTHER ->
                    /\ sql' = p.sql
                    /\ cls' = Classify(p.sql)
                    /\ IF execute_accepts(p.sql)
                       THEN pc' = "x_connect" /\ resp' = resp
                       ELSE /\ pc' = "done"
                            /\ resp' = ErrorResp(400,
                                   "read-only statements are not allowed")
    /\ UNCHANGED <<config_vars, api_key, db, req, conn, loc, db0, n_exec,
                   n_db, gate_vars>>

ExecuteConnect ==
    /\ pc = "x_connect"
    /\ n_db' = n_db + 1
    /\ \/ /\ conn' = Opened(db)
          /\ pc' = "x_exec"
          /\ loc' = loc
       \/ /\ conn' = conn
          /\ pc' = "x_except"
          /\ loc' = [loc EXCEPT !.error = "cannot connect",
                                !.failed_at = "connect"]
    /\ UNCHANGED <<config_vars, api_key, db, req, sql, cls, resp, db0, n_exec,
                   gate_vars>>

\* The count the backend reports, 0 when it reports none.
affected_of(rowcount) == IF rowcount < 0 THEN 0 ELSE rowcount

ExecuteRun ==
    /\ pc = "x_exec"
    /\ n_exec' = n_exec + 1
    /\ n_db' = n_db + 1
    /\ LET r == DbExecute(sql, conn.work, conn.ro)
       IN  /\ conn' = [conn EXCEPT !.work = r.work]
           /\ IF r.ok
              THEN /\ pc' = "x_commit"
                   /\ loc' = [loc EXCEPT !.affected = affected_of(r.rowcount)]
              ELSE /\ pc' = "x_except"
                   /\ loc' = [loc EXCEPT !.error = r.error,
                                         !.failed_at = "execute"]
    /\ UNCHANGED <<config_vars, api_key, db, req, sql, cls, resp, db0,
                   gate_vars>>

ExecuteCommit ==
    /\ pc = "x_commit"
    /\ db' = commit_result(db, conn.work)
    /\ conn' = Closed
    /\ n_db' = n_db + 1
    /\ pc' = "x_respond"
    /\ UNCHANGED <<config_vars, api_key, req, sql, cls, loc, resp, db0, n_exec,
                   gate_vars>>

ExecuteExcept ==
    /\ pc = "x_except"
    /\ db' = IF conn.tx THEN close_result(db, conn.work) ELSE db
    /\ conn' = Closed
    /\ resp' = ErrorResp(422, loc.error)
    /\ pc' = "done"
    /\ UNCHANGED <<config_vars, api_key, req, sql, cls, loc, db0, n_exec, n_db,
                   gate_vars>>

ExecuteRespond ==
    /\ pc = "x_respond"
    /\ resp' = [NoResp EXCEPT !.status = 200, !.affected_rows = loc.affected]
    /\ pc' = "done"
    /\ UNCHANGED <<config_vars, api_key, db, req, sql, cls, conn, loc, db0,
                   n_exec, n_db, gate_vars>>

-----------------------------------------------------------------------------
(* The gates on their own *)

InitGate ==
    /\ debug \in BOOLEAN
    /\ api_key \in EnvKeys
    /\ skip_paths \in {<<>>, <<PathHealth>>}
    /\ api_key_header \in {"", HeaderName}
    /\ row_limit = 1
    /\ readonly_ok = FALSE
    /\ db = <<>>
    /\ pc = "idle"
    /\ req = NoRequest
    /\ sql = <<>>
    /\ cls = ""
    /\ conn = Closed
    /\ loc = NoLocals
    /\ resp = NoResp
    /\ db0 = db
    /\ n_exec = 0
    /\ n_db = 0
    /\ greq = GNoRequest
    /\ gres = NoAnswer
    /\ refused = NoRefusals

\* What the application answers a request before any view runs: the
\* before_request hook of secure_app first, then, on a view of the blueprint,
\* the wrapper of _require_auth.
Answer(r) ==
    LET a == basic_auth_check(debug, api_key, skip_paths, api_key_header, r)
        b == require_auth(debug, api_key, r.auth)
    IN  IF ~a.pass
        THEN [gate |-> "app", pass |-> FALSE, status |-> a.status,
              error |-> a.error, key |-> api_key]
        ELSE IF r.endpoint = "fenrir.view"
        THEN [gate |-> "bearer", pass |-> b.pass, status |-> b.status,
              error |-> b.error, key |-> api_key]
        ELSE [gate |-> "app", pass |-> TRUE, status |-> 0, error |-> "",
              key |-> api_key]

KindOf(key) == IF Truthy(key) THEN "wrong" ELSE "unconfigured"

Gate ==
    /\ \E r \in GateRequests :
         /\ greq' = r
         /\ gres' = Answer(r)
         /\ refused' =
               IF Answer(r).pass THEN refused
               ELSE [refused EXCEPT ![Answer(r).gate][KindOf(api_key)] =
                                        Answer(r).status]
    /\ UNCHANGED <<config_vars, api_key, db, handler_vars, skip_paths,
                   api_key_header>>

NextGate ==
    \/ SetEnv
    \/ Gate

SpecGate == InitGate /\ [][NextGate]_vars

-----------------------------------------------------------------------------

Next ==
    \/ SetEnv
    \/ Receive
    \/ Finish
    \/ Auth
    \/ Index
    \/ Schema
    \/ QueryParse
    \/ QueryConnect
    \/ QuerySetReadOnly
    \/ QueryExecute
    \/ QueryFetch
    \/ QueryProbe
    \/ QueryRollback
    \/ QueryExit
    \/ QueryExcept
    \/ QueryRespond
    \/ ExecuteParse
    \/ ExecuteConnect
    \/ ExecuteRun
    \/ ExecuteCommit
    \/ ExecuteExcept
    \/ ExecuteRespond

Spec == Init /\ [][Next]_vars

-----------------------------------------------------------------------------
(* Properties *)

Min(a, b) == IF a <= b THEN a ELSE b

\* s begins with `word` (given in lower case), whatever the case of s.
BeginsCI(s, word) ==
    /\ Len(s) >= Len(word)
    /\ [i \in 1..Len(word) |-> ToLower(s[i])] = word

\* s without its leading whitespace.
LStrip(s) == SliceFrom(s, FirstNonWs(s) - 1)

\* C1: the read path never commits. From the arrival of a request to
\* /fenrir/query until its response is sent, whatever the statement does and
\* whatever the outcome, the committed rows are those the request found.
C1_ReadNeverCommits == req.route = "query" => db = db0

\* C1's case: a WITH-prefixed statement that deleted every row and returned
\* them was answered 200, and the rows are still there.
C1_Witness ==
    /\ pc = "done" /\ req.route = "query" /\ resp.status = 200
    /\ Sem(sql) = "delete_returning"
    /\ resp.rows # <<>>
    /\ db = db0 /\ db # <<>>

\* C2: a successful query over a result set of M rows under row limit N
\* returns the first min(M, N) rows, row_count = min(M, N) = len(rows),
\* row_limit = N, and truncated exactly when M > N. (Every statement of the
\* model that returns rows returns the rows the request found, db0.)
C2_RowLimit ==
    (pc = "done" /\ req.route = "query" /\ resp.status = 200) =>
        LET M == Len(db0)
            N == row_limit
        IN  /\ resp.rows = SubSeq(db0, 1, Min(M, N))
            /\ resp.row_count = Min(M, N)
            /\ resp.row_count = Len(resp.rows)
            /\ resp.row_limit = N
            /\ resp.truncated <=> M > N

\* C2's case: exactly one row more than the limit.
C2_Witness ==
    /\ pc = "done" /\ req.route = "query" /\ resp.status = 200
    /\ Len(db0) = row_limit + 1
    /\ resp.row_count = row_limit /\ resp.truncated

\* The statement of a request whose sql field is a string that is not empty
\* once stripped, after the handler classified it.
Classified == req.body.kind = "sql" /\ Strip(req.body.text) # <<>> /\ cls # ""

\* C3 as stated: with only the leading whitespace stripped, the statement is
\* READ_ONLY exactly when it begins with SELECT, or with WITH and a
\* whitespace character, in any case; otherwise it is MUTATING.
C3_LeadingStripOnly ==
    Classified =>
        LET L == LStrip(req.body.text)
        IN  /\ cls = "READ_ONLY" <=>
                \/ BeginsCI(L, ReSelect)
                \/ BeginsCI(L, ReWith) /\ Len(L) >= 5 /\ L[5] \in WS
            /\ cls \in {"READ_ONLY", "MUTATING"}

\* C3, amended: with the whitespace stripped at both ends, the statement is
\* READ_ONLY exactly when it begins with SELECT, or with WITH and a
\* whitespace character, in any case; otherwise it is MUTATING.
C3_Classification ==
    Classified =>
        LET T == Strip(req.body.text)
        IN  /\ cls = "READ_ONLY" <=>
                \/ BeginsCI(T, ReSelect)
                \/ BeginsCI(T, ReWith) /\ Len(T) >= 5 /\ T[5] \in WS
            /\ cls \in {"READ_ONLY", "MUTATING"}

\* C3's case: WITH followed by nothing but whitespace is MUTATING.
C3_Witness ==
    /\ req.body.kind = "sql"
    /\ req.body.text = <<"\n", " ">> \o WithOnly \o <<"\t">>
    /\ cls = "MUTATING"

\* The request carries exactly "Bearer " and the configured, non-empty key.
Authorized ==
    /\ api_key.set /\ api_key.val # <<>>
    /\ req.auth = BearerPrefix \o api_key.val

\* C4: with debug off, a view of the blueprint runs, and the database is
\* called, only for a request that is Authorized; any other request is
\* answered 401 with no database call and nothing written.
C4_AuthBeforeHandler ==
    ~debug =>
        /\ pc \notin {"idle", "auth", "done"} => Authorized
        /\ (n_db > 0 \/ n_exec > 0 \/ conn.open) => Authorized
        /\ (pc = "done" /\ ~Authorized) =>
              resp.status = 401 /\ n_db = 0 /\ n_exec = 0 /\ db = db0

\* C4's case: the right scheme and a key that only begins like the
\* configured one is refused.
C4_Witness ==
    /\ ~debug /\ pc = "done" /\ Truthy(api_key)
    /\ req.auth = BearerPrefix \o api_key.val \o <<"x">>
    /\ resp.status = 401

C6_WriteCommits ==
    /\ (pc = "done" /\ req.route = "execute" /\ n_exec = 1
            /\ DbExecute(sql, db0, FALSE).ok) =>
          /\ resp.status = 200
          /\ Sem(sql) = "insert" =>
                /\ resp.affected_rows = 1
                /\ db = Append(db0, Row(Len(db0) + 1))
          /\ (Sem(sql) = "update" /\ db0 # <<>>) =>
                /\ resp.affected_rows = 1
                /\ db = [db0 EXCEPT ![1].email = "new"]
          /\ (Sem(sql) = "delete" /\ db0 # <<>>) =>
                /\ resp.affected_rows = 1
                /\ db = SubSeq(db0, 1, Len(db0) - 1)
    /\ (req.route = "query" /\ pc = "q_readonly") => conn.work = db

\* C6's case: an INSERT was answered 200 and its row is committed.
C6_Witness ==
    /\ pc = "done" /\ req.route = "execute" /\ resp.status = 200
    /\ Sem(sql) = "insert" /\ resp.affected_rows = 1
    /\ Len(db) = Len(db0) + 1

\* C7: on both POST endpoints, a request the gate lets through whose body has
\* no sql field, or an sql field that is empty or only whitespace, is
\* answered 400 with no connection opened and no statement submitted.
C7_MissingSqlIs400 ==
    (/\ pc = "done" /\ req.route \in {"query", "execute"}
     /\ resp.status # 401
     /\ \/ req.body.kind # "sql"
        \/ Strip(req.body.text) = <<>>) =>
        resp.status = 400 /\ n_db = 0 /\ n_exec = 0 /\ ~conn.open

\* C8: a statement the query endpoint accepted and that fails in the backend
\* (when submitted, or while its rows are read) ends the request with 422
\* and the backend's message; it was submitted once; and no statement is
\* ever submitted twice for one request.
C8_FailureIs422Once ==
    /\ n_exec <= 1
    /\ (pc = "done" /\ req.route = "query"
            /\ loc.failed_at \in {"execute", "keys", "fetch"}) =>
          /\ resp.status = 422
          /\ n_exec = 1
          /\ resp.error # ""
          /\ loc.failed_at = "execute" =>
                resp.error = DbExecute(sql, db0, readonly_ok).error
    /\ (pc = "done" /\ req.route = "query" /\ n_exec = 1
            /\ ~DbExecute(sql, db0, readonly_ok).ok) =>
          resp.status = 422

\* C8's case: a SELECT from a table that does not exist was answered 422.
C8_Witness ==
    /\ pc = "done" /\ req.route = "query" /\ sql = SelBad
    /\ resp.status = 422 /\ n_exec = 1

\* The credential the gate that answered asks for is the key it read.
CredentialOK ==
    IF gres.gate = "bearer" THEN greq.auth = BearerPrefix \o gres.key.val
    ELSE \/ /\ greq.authorization.set
            /\ greq.authorization.password = gres.key.val
         \/ /\ api_key_header # ""
            /\ greq.headers[api_key_header] = Some(gres.key.val)

\* A request one of the gates has to decide: any request to a view of the
\* blueprint, and a request the application-wide check does not skip.
Gated ==
    \/ gres.gate = "bearer"
    \/ gres.gate = "app" /\ greq.path # PathRoot /\ ~Exempt(skip_paths, greq)

\* With debug off, a gated request is refused, with a status outside 2xx,
\* when the secret is not configured and when its credential is not the
\* secret.
BothRefused ==
    (~debug /\ Gated /\ (~Truthy(gres.key) \/ ~CredentialOK)) =>
        ~gres.pass /\ gres.status \notin 200..299

\* C9 as stated: in each gate both kinds of request are refused and the
\* status of the refusal for a secret that is not configured differs from
\* the status of the refusal for a wrong or missing credential.
C9_DistinctStatuses ==
    /\ BothRefused
    /\ \A g \in Gates :
          (refused[g]["unconfigured"] # 0 /\ refused[g]["wrong"] # 0) =>
              refused[g]["unconfigured"] # refused[g]["wrong"]

\* C9, amended: both kinds of request are refused in each gate; the
\* application-wide check answers 503 for a secret that is not configured and
\* 401 for a wrong or missing credential, and the bearer check answers 401
\* for both.
C9_GateStatuses ==
    /\ BothRefused
    /\ refused["app"]["unconfigured"] \in {0, 503}
    /\ refused["app"]["wrong"] \in {0, 401}
    /\ refused["bearer"]["unconfigured"] \in {0, 401}
    /\ refused["bearer"]["wrong"] \in {0, 401}

\* C9's case: each gate has refused a request of each kind.
C9_Witness ==
    /\ refused["app"]["unconfigured"] = 503
    /\ refused["app"]["wrong"] = 401
    /\ refused["bearer"]["unconfigured"] = 401
    /\ refused["bearer"]["wrong"] = 401

\* C10: with debug off, a request to a path that is neither under /fenrir/,
\* nor a static file, nor under a configured skip path goes on to its view
\* only with the key as its basic-auth password or in the configured API key
\* header; otherwise it is refused, with 503 if the key is not configured and
\* 401 if it is.
C10_AuthOnEveryOtherPath ==
    (~debug /\ gres.gate = "app" /\ ~Exempt(skip_paths, greq)) =>
        IF Truthy(gres.key) /\ CredentialOK
        THEN gres.pass
        ELSE ~gres.pass
             /\ gres.status = IF Truthy(gres.key) THEN 401 ELSE 503


\* The steps of the query handler inside its with block, and the step that
\* leaves it by an exception.
InsideWith ==
    {"q_readonly", "q_exec", "q_fetch", "q_probe", "q_rollback", "q_exit",
     "q_except"}

\* C11: a request to /fenrir/query holds a connection, and has a transaction
\* open, only while its handler is inside the with block; by the time its
\* response is produced, on the successful path and on every failing one,
\* the transaction is over, the connection is released and nothing the
\* transaction did is committed.
C11_ReleasedOnEveryExit ==
    req.route = "query" =>
        /\ conn.tx => conn.open
        /\ conn.open => pc \in InsideWith
        /\ (pc = "done" \/ resp.status # 0) =>
              ~conn.open /\ ~conn.tx /\ db = db0

\* C11's case: on a backend that refused the read-only mode, the statement
\* was submitted on an acquired connection, reading its rows failed, and
\* the request was answered with the connection released.
C11_Witness ==
    /\ pc = "done" /\ req.route = "query" /\ ~readonly_ok
    /\ loc.failed_at = "fetch" /\ n_exec = 1
    /\ resp.status = 422 /\ ~conn.open /\ ~conn.tx

====
